---------------------------- MODULE Spec2Model ----------------------------
(***************************************************************************)
(* Mood lighting state engine: LightingController (lighting_controller.py) *)
(* and EmotionDetector (emotion_detector.py).                              *)
(*                                                                         *)
(* Time.  LightingController reads the clock only in the difference        *)
(* time.time() - self.last_update, so the model keeps that difference,     *)
(* since_update, in units of 1/TimeDen second, instead of the two absolute *)
(* readings: construction and update set it to 0, TimePasses raises it.    *)
(* Arithmetic on floats is modelled on exact rationals; the sampled        *)
(* instants are ones on which the two agree for the colours reached.       *)
(*                                                                         *)
(* Optional values.  Python's None is the empty tuple <<>>; an emotion     *)
(* label is a tuple of one-character strings, so that lower() is a         *)
(* computation on the characters.                                          *)
(***************************************************************************)
EXTENDS Integers, Sequences, FiniteSets, TLC

VARIABLES
    current_color,    \* LightingController.current_color
    target_color,     \* LightingController.target_color
    is_on,            \* LightingController.is_on
    brightness,       \* LightingController.brightness, in 1/BrightDen
    since_update,     \* time.time() - LightingController.last_update, in 1/TimeDen s
    session_log,      \* LightingController.session_log
    last_emotion,     \* EmotionDetector.last_emotion
    emotion_history,  \* EmotionDetector.emotion_history
    arrivals,         \* every observation recorded since construction or reset
    long_pauses,      \* how many pauses with step > 2 the clock has made
    last_call         \* the most recent call: its name, its arguments' effect, its return value

vars == <<current_color, target_color, is_on, brightness, since_update,
          session_log, last_emotion, emotion_history, arrivals, long_pauses,
          last_call>>

lightVars == <<current_color, target_color, is_on, brightness, since_update,
               session_log>>
detectorVars == <<last_emotion, emotion_history, arrivals>>

-----------------------------------------------------------------------------
(* Bounds of the model *)

\* the clock's resolution: one unit of since_update is 1/TimeDen second
TimeDen == 8
\* pauses long enough for step > 2, where the distance to the target grows
MaxLongPauses == 1
\* entries the session log may hold before logging stops being explored
MaxLog == 2
\* observations recorded (since construction or reset) before recording stops
MaxRecords == 32
\* frames with a face the application processes before it stops
MaxCycles == 3

\* the instants (since the last update) at which the clock is read:
\* half a second and a second and a quarter (step 0.5 and 1.25)
ElapsedSet == {0, TimeDen \div 2, TimeDen + (TimeDen \div 4)}
\* the same with a pause of two and a half seconds (step 2.5)
PauseElapsedSet == ElapsedSet \cup {2 * TimeDen + (TimeDen \div 2)}
\* an eighth of a second and a second (step 0.125 and 1)
LiveElapsedSet == {0, TimeDen \div 8, TimeDen}

None == <<>>

Min(a, b) == IF a <= b THEN a ELSE b
Max(a, b) == IF a >= b THEN a ELSE b
Abs(a) == IF a >= 0 THEN a ELSE -a

\* Python's int() of the rational num/den (den > 0): truncation toward zero
PyInt(num, den) == IF num >= 0 THEN num \div den ELSE -((-num) \div den)

-----------------------------------------------------------------------------
(* LightingController *)

\* transition_speed = 0.1
TransitionSpeedNum == 1
TransitionSpeedDen == 10

\* brightness = 0.7 is InitBrightness / BrightDen
InitBrightness == 7
BrightDen == 10

NeutralWhite == <<200, 200, 200>>
Off == <<0, 0, 0>>

\* the colours set_emotion_color is called with: neutral and happy of
\* EMOTION_COLORS, and a colour less than 5 away from neutral on every channel
Colors == {<<200, 200, 200>>, <<255, 200, 0>>}
NearColors == Colors \cup {<<203, 198, 200>>}

\* what datetime.now().strftime("%Y-%m-%d %H:%M:%S") may give
Timestamps == {"2024-05-01 10:00:00"}
\* the brightness values the caller passes, in 1/BrightDen
BrightnessInputs == {-3, 7, 12}

\* step = self.transition_speed * dt * 10, as the fraction StepNum(dt) / StepDen
StepNum(dt) == TransitionSpeedNum * dt * 10
StepDen == TransitionSpeedDen * TimeDen

\* int(c1 + (c2 - c1) * step)
Interpolate(c1, c2, dt) == PyInt(c1 * StepDen + (c2 - c1) * StepNum(dt), StepDen)

\* abs(r - r2) < 5 and abs(g - g2) < 5 and abs(b - b2) < 5
CloseEnough(c, t) == /\ Abs(c[1] - t[1]) < 5
                     /\ Abs(c[2] - t[2]) < 5
                     /\ Abs(c[3] - t[3]) < 5

\* an update() that tests the colour before the step against the threshold
UpdatedColorSnapOld(cur, tgt, dt) ==
    IF cur # tgt
    THEN LET rgb == <<Interpolate(cur[1], tgt[1], dt),
                      Interpolate(cur[2], tgt[2], dt),
                      Interpolate(cur[3], tgt[3], dt)>>
         IN  IF CloseEnough(cur, tgt) THEN tgt ELSE rgb
    ELSE cur

\* an update() without the snap to the target
UpdatedColorNoSnap(cur, tgt, dt) ==
    IF cur # tgt
    THEN <<Interpolate(cur[1], tgt[1], dt),
           Interpolate(cur[2], tgt[2], dt),
           Interpolate(cur[3], tgt[3], dt)>>
    ELSE cur

\* the colour update() leaves in current_color after dt
UpdatedColor(cur, tgt, dt) ==
    IF cur # tgt
    THEN LET rgb == <<Interpolate(cur[1], tgt[1], dt),
                      Interpolate(cur[2], tgt[2], dt),
                      Interpolate(cur[3], tgt[3], dt)>>
         IN  IF CloseEnough(rgb, tgt) THEN tgt ELSE rgb
    ELSE cur

Call(op, args, ret) == [op |-> op, args |-> args, ret |-> ret]

\* a call that ends in the exception exc instead of returning
Raise(op, args, exc) == [op |-> op, args |-> args, ret |-> None, raised |-> exc]

\* one entry of session_log
LogEntry(timestamp, event_type, emotion, color) ==
    [timestamp |-> timestamp, event |-> event_type, emotion |-> emotion,
     color |-> color]

\* a log_event that inserts the entry at the head of the list
LogPrepended(log, entry) == <<entry>> \o log

\* self.session_log.append(entry)
LogAppended(log, entry) == Append(log, entry)

\* a get_current_color without the is_on test
CurrentOutputIgnoringOff(on, cur, bright) ==
    <<PyInt(cur[1] * bright, BrightDen),
      PyInt(cur[2] * bright, BrightDen),
      PyInt(cur[3] * bright, BrightDen)>>

\* the tuple get_current_color() returns
CurrentOutput(on, cur, bright) ==
    IF ~on
    THEN Off
    ELSE <<PyInt(cur[1] * bright, BrightDen),
           PyInt(cur[2] * bright, BrightDen),
           PyInt(cur[3] * bright, BrightDen)>>

\* a clamp that forgets the lower end
ClampBrightnessAbove(b) == Min(BrightDen, b)

\* max(0.0, min(1.0, brightness))
ClampBrightness(b) == Max(0, Min(BrightDen, b))

Init ==
    /\ current_color = NeutralWhite
    /\ target_color = NeutralWhite
    /\ is_on = FALSE
    /\ brightness = InitBrightness
    /\ since_update = 0
    /\ session_log = <<>>
    /\ last_emotion = None
    /\ emotion_history = <<>>
    /\ arrivals = <<>>
    /\ long_pauses = 0
    /\ last_call = Call("__init__", <<>>, None)

\* the clock moves on to a later one of the instants S
TimePasses(S) ==
    /\ \E e \in S :
          /\ e > since_update
          /\ IF StepNum(e) > 2 * StepDen
             THEN /\ long_pauses < MaxLongPauses
                  /\ long_pauses' = long_pauses + 1
             ELSE long_pauses' = long_pauses
          /\ since_update' = e
    /\ UNCHANGED <<current_color, target_color, is_on, brightness, session_log,
                   detectorVars, last_call>>

\* a set_emotion_color that jumps to the colour whatever smooth is
SetEmotionColorJump(color, smooth) ==
    /\ current_color' = color
    /\ target_color' = color
    /\ last_call' = Call("set_emotion_color", <<color, smooth>>, None)
    /\ UNCHANGED <<is_on, brightness, since_update, session_log, detectorVars,
                   long_pauses>>

SetEmotionColor(color, smooth) ==
    /\ IF smooth
       THEN /\ target_color' = color
            /\ UNCHANGED current_color
       ELSE /\ current_color' = color
            /\ target_color' = color
    /\ last_call' = Call("set_emotion_color", <<color, smooth>>, None)
    /\ UNCHANGED <<is_on, brightness, since_update, session_log, detectorVars,
                   long_pauses>>

Update ==
    /\ current_color' = UpdatedColor(current_color, target_color, since_update)
    /\ since_update' = 0
    /\ last_call' = Call("update", <<since_update>>, None)
    /\ UNCHANGED <<target_color, is_on, brightness, session_log, detectorVars,
                   long_pauses>>

GetCurrentColor ==
    /\ last_call' = Call("get_current_color", <<>>,
                         CurrentOutput(is_on, current_color, brightness))
    /\ UNCHANGED <<lightVars, detectorVars, long_pauses>>

SetBrightness(b) ==
    /\ brightness' = ClampBrightness(b)
    /\ last_call' = Call("set_brightness", <<b>>, None)
    /\ UNCHANGED <<current_color, target_color, is_on, since_update, session_log,
                   detectorVars, long_pauses>>

\* log_event(event_type, emotion, color) at the time datetime.now() gives
LogEventAt(ts, event_type, emotion, color) ==
    /\ Len(session_log) < MaxLog
    /\ session_log' = LogAppended(session_log, LogEntry(ts, event_type, emotion, color))

TurnOn ==
    /\ is_on' = TRUE
    /\ \E ts \in Timestamps : LogEventAt(ts, "lights_on", None, None)
    /\ last_call' = Call("turn_on", <<>>, None)
    /\ UNCHANGED <<current_color, target_color, brightness, since_update,
                   detectorVars, long_pauses>>

\* a turn_off that logs the event and leaves the lights as they were
TurnOffKeepingOn ==
    /\ is_on' = is_on
    /\ \E ts \in Timestamps : LogEventAt(ts, "lights_off", None, None)
    /\ last_call' = Call("turn_off", <<>>, None)
    /\ UNCHANGED <<current_color, target_color, brightness, since_update,
                   detectorVars, long_pauses>>

TurnOff ==
    /\ is_on' = FALSE
    /\ \E ts \in Timestamps : LogEventAt(ts, "lights_off", None, None)
    /\ last_call' = Call("turn_off", <<>>, None)
    /\ UNCHANGED <<current_color, target_color, brightness, since_update,
                   detectorVars, long_pauses>>

LogEvent(event_type, emotion, color) ==
    /\ \E ts \in Timestamps : LogEventAt(ts, event_type, emotion, color)
    /\ last_call' = Call("log_event", <<event_type, emotion, color>>, None)
    /\ UNCHANGED <<current_color, target_color, is_on, brightness, since_update,
                   detectorVars, long_pauses>>

GetSessionLog ==
    /\ last_call' = Call("get_session_log", <<>>, session_log)
    /\ UNCHANGED <<lightVars, detectorVars, long_pauses>>

ClearLog ==
    /\ session_log' = <<>>
    /\ last_call' = Call("clear_log", <<>>, None)
    /\ UNCHANGED <<current_color, target_color, is_on, brightness, since_update,
                   detectorVars, long_pauses>>

\* every operation of LightingController, the clock read at ElapsedSet
Next ==
    \/ TimePasses(ElapsedSet)
    \/ \E color \in Colors, smooth \in BOOLEAN : SetEmotionColor(color, smooth)
    \/ Update
    \/ GetCurrentColor
    \/ \E b \in BrightnessInputs : SetBrightness(b)
    \/ TurnOn
    \/ TurnOff
    \/ LogEvent("emotion_change", <<"happy">>, <<255, 200, 0>>)
    \/ GetSessionLog
    \/ ClearLog

Spec == Init /\ [][Next]_vars


-----------------------------------------------------------------------------
(* EmotionDetector *)

\* A Python dict is the sequence of its <<key, value>> items in insertion order.
DictHas(d, k) == \E i \in 1..Len(d) : d[i][1] = k

\* d.get(k, default)
DictGet(d, k, default) ==
    IF DictHas(d, k)
    THEN d[CHOOSE i \in 1..Len(d) : d[i][1] = k][2]
    ELSE default

\* d[k] = v
DictSet(d, k, v) ==
    IF DictHas(d, k)
    THEN [i \in 1..Len(d) |-> IF d[i][1] = k THEN <<k, v>> ELSE d[i]]
    ELSE Append(d, <<k, v>>)

UpperLetters == <<"A", "B", "C", "D", "E", "F", "G", "H", "I", "J", "K", "L", "M",
                  "N", "O", "P", "Q", "R", "S", "T", "U", "V", "W", "X", "Y", "Z">>
LowerLetters == <<"a", "b", "c", "d", "e", "f", "g", "h", "i", "j", "k", "l", "m",
                  "n", "o", "p", "q", "r", "s", "t", "u", "v", "w", "x", "y", "z">>

LowerChar(c) ==
    IF \E i \in 1..Len(UpperLetters) : UpperLetters[i] = c
    THEN LowerLetters[CHOOSE i \in 1..Len(UpperLetters) : UpperLetters[i] = c]
    ELSE c

\* str.lower()
PyLower(label) == [i \in 1..Len(label) |-> LowerChar(label[i])]

happy == <<"h", "a", "p", "p", "y">>
sad == <<"s", "a", "d">>
angry == <<"a", "n", "g", "r", "y">>
surprise == <<"s", "u", "r", "p", "r", "i", "s", "e">>
fear == <<"f", "e", "a", "r">>
disgust == <<"d", "i", "s", "g", "u", "s", "t">>
neutral == <<"n", "e", "u", "t", "r", "a", "l">>

EMOTION_COLORS ==
    << <<happy, <<255, 200, 0>>>>,
       <<sad, <<100, 150, 255>>>>,
       <<angry, <<255, 50, 50>>>>,
       <<surprise, <<255, 255, 100>>>>,
       <<fear, <<150, 100, 200>>>>,
       <<disgust, <<100, 200, 100>>>>,
       <<neutral, <<200, 200, 200>>>> >>

DefaultColor == <<200, 200, 200>>

\* self.EMOTION_COLORS.get(emotion.lower(), (200, 200, 200))
ColorFor(emotion) == DictGet(EMOTION_COLORS, PyLower(emotion), DefaultColor)

\* the history keeps 30 entries
HistoryCap == 30

\* a trim that pops the newest entry
TrimmedNewest(history) ==
    IF Len(history) > HistoryCap THEN SubSeq(history, 1, Len(history) - 1) ELSE history

\* if len(self.emotion_history) > 30: self.emotion_history.pop(0)
Trimmed(history) ==
    IF Len(history) > HistoryCap THEN Tail(history) ELSE history

\* The results DeepFace.analyze gives (result[0] of a list): a dict that may
\* lack either key; the scores are whole percents.  A stream of frames gives
\* a run of the first, then a run of the second, then a run of the third.
Analyses ==
    << << <<"emotion", << <<happy, 80>>, <<sad, 20>> >> >>,
          <<"dominant_emotion", happy>> >>,
       << <<"emotion", << <<sad, 40>>, <<happy, 60>> >> >>,
          <<"dominant_emotion", <<"H", "a", "p", "p", "y">> >> >>,
       << <<"emotion", << <<angry, 30>> >> >> >> >>

HistoryEntry(dominant_emotion, emotion_scores, color) ==
    [emotion |-> dominant_emotion, scores |-> emotion_scores, color |-> color]

\* the history entry detect_emotion(frame) appends when DeepFace.analyze gives result
EntryOf(result) ==
    LET dominant_emotion == DictGet(result, "dominant_emotion", neutral)
    IN  HistoryEntry(dominant_emotion, DictGet(result, "emotion", <<>>),
                     ColorFor(dominant_emotion))

\* the place in Analyses of the result that gave the entry
Rank(entry) == CHOOSE i \in 1..Len(Analyses) : EntryOf(Analyses[i]) = entry

\* detect_emotion(frame) when DeepFace.analyze gives result
DetectEmotion(result) ==
    LET emotion_scores == DictGet(result, "emotion", <<>>)
        dominant_emotion == DictGet(result, "dominant_emotion", neutral)
        color == ColorFor(dominant_emotion)
        entry == HistoryEntry(dominant_emotion, emotion_scores, color)
    IN  /\ Len(arrivals) < MaxRecords
        /\ IF arrivals = <<>>
           THEN TRUE
           ELSE Rank(arrivals[Len(arrivals)]) <= Rank(entry)
        /\ last_emotion' = <<dominant_emotion>>
        /\ emotion_history' = Trimmed(Append(emotion_history, entry))
        /\ arrivals' = Append(arrivals, entry)
        /\ last_call' = Call("detect_emotion", <<result>>,
                             [emotion |-> dominant_emotion,
                              dominant_emotion |-> dominant_emotion,
                              scores |-> emotion_scores,
                              color |-> color,
                              face_detected |-> TRUE])
        /\ UNCHANGED <<lightVars, long_pauses>>

\* detect_emotion(frame) when cvtColor or DeepFace.analyze raises
DetectEmotionFails ==
    /\ last_call' = Call("detect_emotion", <<None>>,
                         [emotion |-> <<"n", "o", "n", "e">>,
                          dominant_emotion |-> <<"n", "o", "n", "e">>,
                          scores |-> <<>>,
                          color |-> <<128, 128, 128>>,
                          face_detected |-> FALSE,
                          error |-> "str(e)"])
    /\ UNCHANGED <<lightVars, detectorVars, long_pauses>>

\* seq[start:] for a start that may be negative
PySliceFrom(seq, start) ==
    LET from == IF start < 0 THEN Max(0, Len(seq) + start) ELSE Min(start, Len(seq))
    IN  SubSeq(seq, from + 1, Len(seq))

\* for emotion, score in items: all_scores[emotion] = all_scores.get(emotion, 0) + score
\* (each assignment is made before the next item is read: the dict holds the key)
RECURSIVE AddItems(_, _, _)
AddItems(all_scores, items, i) ==
    IF i > Len(items)
    THEN all_scores
    ELSE LET emotion == items[i][1]
             score == items[i][2]
             assigned == DictSet(all_scores, emotion, DictGet(all_scores, emotion, 0) + score)
         IN  IF DictHas(assigned, emotion)
             THEN AddItems(assigned, items, i + 1)
             ELSE assigned

\* for entry in recent: ...
\* (an entry's items are all added before the next entry is read: the dict never shrinks)
RECURSIVE AddEntries(_, _, _)
AddEntries(all_scores, recent, j) ==
    IF j > Len(recent)
    THEN all_scores
    ELSE LET added == AddItems(all_scores, recent[j].scores, 1)
         IN  IF Len(added) >= Len(all_scores)
             THEN AddEntries(added, recent, j + 1)
             ELSE added

\* sum(all_scores.values())
RECURSIVE SumValues(_, _)
SumValues(d, i) == IF i > Len(d) THEN 0 ELSE d[i][2] + SumValues(d, i + 1)

RECURSIVE Gcd(_, _)
Gcd(a, b) == IF b = 0 THEN a ELSE Gcd(b, a % b)

\* the number num/den (den > 0) in lowest terms
Rat(num, den) ==
    LET g == Gcd(Abs(num), den) IN <<num \div g, den \div g>>

RatLess(x, y) == x[1] * y[2] < y[1] * x[2]

\* a normalisation that divides by window_size
NormalizedByWindow(all_scores, recent, window_size) ==
    IF SumValues(all_scores, 1) > 0
    THEN [i \in 1..Len(all_scores) |->
              <<all_scores[i][1], Rat(all_scores[i][2], window_size)>>]
    ELSE [i \in 1..Len(all_scores) |-> <<all_scores[i][1], Rat(all_scores[i][2], 1)>>]

\* if total > 0: all_scores[emotion] /= len(recent)
Normalized(all_scores, recent, window_size) ==
    IF SumValues(all_scores, 1) > 0
    THEN [i \in 1..Len(all_scores) |->
              <<all_scores[i][1], Rat(all_scores[i][2], Len(recent))>>]
    ELSE [i \in 1..Len(all_scores) |-> <<all_scores[i][1], Rat(all_scores[i][2], 1)>>]

\* max(all_scores.items(), key=lambda x: x[1])[0]: the first item no other exceeds
MaxKey(d) ==
    d[CHOOSE i \in 1..Len(d) :
          /\ \A j \in 1..Len(d) : ~RatLess(d[i][2], d[j][2])
          /\ \A j \in 1..(i - 1) : RatLess(d[j][2], d[i][2])][1]

\* what get_average_emotion(window_size) returns
AverageEmotion(history, window_size) ==
    IF history = <<>>
    THEN None
    ELSE LET recent == PySliceFrom(history, -window_size)
             all_scores == Normalized(AddEntries(<<>>, recent, 1), recent, window_size)
             dominant == IF all_scores # <<>> THEN MaxKey(all_scores) ELSE neutral
         IN  [emotion |-> dominant, scores |-> all_scores, color |-> ColorFor(dominant)]

GetAverageEmotion(window_size) ==
    /\ last_call' = Call("get_average_emotion", <<window_size>>,
                         AverageEmotion(emotion_history, window_size))
    /\ UNCHANGED <<lightVars, detectorVars, long_pauses>>

\* get_color_for_emotion(emotion); None has no lower(), so emotion.lower()
\* raises AttributeError.  (The empty string, which lower() accepts, is not
\* among the labels the model passes.)
GetColorForEmotion(emotion) ==
    /\ last_call' = IF emotion = None
                    THEN Raise("get_color_for_emotion", <<emotion>>, "AttributeError")
                    ELSE Call("get_color_for_emotion", <<emotion>>, ColorFor(emotion))
    /\ UNCHANGED <<lightVars, detectorVars, long_pauses>>

Reset ==
    /\ last_emotion' = None
    /\ emotion_history' = <<>>
    /\ arrivals' = <<>>
    /\ last_call' = Call("reset", <<>>, None)
    /\ UNCHANGED <<lightVars, long_pauses>>

\* the window sizes get_average_emotion is called with
WindowSizes == {0, 1, 2, 10, 40}

\* every operation of EmotionDetector
NextDetector ==
    \/ \E i \in 1..Len(Analyses) : DetectEmotion(Analyses[i])
    \/ DetectEmotionFails
    \/ \E window_size \in WindowSizes : GetAverageEmotion(window_size)
    \/ Reset

SpecDetector == Init /\ [][NextDetector]_vars

UpperChar(c) ==
    IF \E i \in 1..Len(LowerLetters) : LowerLetters[i] = c
    THEN UpperLetters[CHOOSE i \in 1..Len(LowerLetters) : LowerLetters[i] = c]
    ELSE c

\* the label written in every mix of upper and lower case
CaseVariants(label) ==
    {[i \in 1..Len(label) |-> IF i \in U THEN UpperChar(label[i]) ELSE label[i]] :
        U \in SUBSET (1..Len(label))}

\* the labels get_color_for_emotion is called with: the keys of the table,
\* four of them in every letter case, two labels that are not keys, and None
LabelInputs ==
    {EMOTION_COLORS[i][1] : i \in 1..Len(EMOTION_COLORS)}
        \cup CaseVariants(sad) \cup CaseVariants(fear)
        \cup CaseVariants(happy) \cup CaseVariants(neutral)
        \cup {<<"b", "o", "r", "e", "d">>, <<"s", "a", "d", "l", "y">>}
        \cup {None}

\* the colour lookup, with no observation recorded
NextLookup ==
    \/ \E emotion \in LabelInputs : GetColorForEmotion(emotion)
    \/ DetectEmotionFails
    \/ Reset

SpecLookup == Init /\ [][NextLookup]_vars

\* an update() called at a timestamp strictly later than the last one
Tick == since_update > 0 /\ Update

\* the colour transition alone, with one pause long enough for step > 2
NextPause ==
    \/ TimePasses(PauseElapsedSet)
    \/ \E color \in NearColors, smooth \in BOOLEAN : SetEmotionColor(color, smooth)
    \/ Update

SpecPause == Init /\ [][NextPause]_vars

\* the colour transition ticked for ever at strictly increasing timestamps
NextLive ==
    \/ TimePasses(LiveElapsedSet)
    \/ \E color \in Colors : SetEmotionColor(color, TRUE)
    \/ Tick

SpecLive == /\ Init /\ [][NextLive]_vars
            /\ WF_vars(TimePasses(LiveElapsedSet))
            /\ WF_vars(Tick)

-----------------------------------------------------------------------------
(* The application's processing cycle (app.py, main) *)

\* what detect_emotion(frame) returns when DeepFace.analyze gives result
Detected(result) ==
    LET dominant_emotion == DictGet(result, "dominant_emotion", neutral)
    IN  [emotion |-> dominant_emotion,
         dominant_emotion |-> dominant_emotion,
         scores |-> DictGet(result, "emotion", <<>>),
         color |-> ColorFor(dominant_emotion),
         face_detected |-> TRUE]

\* what detect_emotion(frame) returns when cvtColor or DeepFace.analyze raises
NotDetected ==
    [emotion |-> <<"n", "o", "n", "e">>,
     dominant_emotion |-> <<"n", "o", "n", "e">>,
     scores |-> <<>>,
     color |-> <<128, 128, 128>>,
     face_detected |-> FALSE,
     error |-> "str(e)"]

\* One processing cycle on a frame in which a face is detected:
\*   result = detect_emotion(frame)
\*   if not calibration_mode: set_emotion_color(result['color'])
\*   update(); light_color = get_current_color()
\*   if result['emotion'] != emotion_detector.last_emotion: log_event(...)
\* The comparison reads last_emotion after detect_emotion has assigned it.
ProcessFace(analysis, calibration_mode) ==
    LET result == Detected(analysis)
        entry == HistoryEntry(result.dominant_emotion, result.scores, result.color)
        last_after == <<result.dominant_emotion>>
        target_after == IF calibration_mode THEN target_color ELSE result.color
        current_after == UpdatedColor(current_color, target_after, since_update)
        light_color == CurrentOutput(is_on, current_after, brightness)
    IN  /\ Len(arrivals) < MaxCycles
        /\ IF arrivals = <<>>
           THEN TRUE
           ELSE Rank(arrivals[Len(arrivals)]) <= Rank(entry)
        /\ last_emotion' = last_after
        /\ emotion_history' = Trimmed(Append(emotion_history, entry))
        /\ arrivals' = Append(arrivals, entry)
        /\ target_color' = target_after
        /\ current_color' = current_after
        /\ since_update' = 0
        /\ IF <<result.emotion>> # last_after
           THEN \E ts \in Timestamps :
                    LogEventAt(ts, "emotion_change", result.emotion, result.color)
           ELSE UNCHANGED session_log
        /\ last_call' = Call("process_frame", <<analysis, calibration_mode>>,
                             [face_detected |-> TRUE, light_color |-> light_color])
        /\ UNCHANGED <<is_on, brightness, long_pauses>>

\* a cycle that calls update() whether or not a face is detected
ProcessNoFaceUpdating ==
    /\ current_color' = UpdatedColor(current_color, target_color, since_update)
    /\ since_update' = 0
    /\ last_call' = Call("process_frame", <<None>>,
                         [face_detected |-> NotDetected.face_detected])
    /\ UNCHANGED <<target_color, is_on, brightness, session_log, detectorVars,
                   long_pauses>>

\* One processing cycle on a frame for which detect_emotion reports no face:
\* the else branch shows the frame and a warning, and calls nothing.
ProcessNoFace ==
    /\ last_call' = Call("process_frame", <<None>>,
                         [face_detected |-> NotDetected.face_detected])
    /\ UNCHANGED <<lightVars, detectorVars, long_pauses>>

\* the processing cycles, the light switches and the log button
NextApp ==
    \/ TimePasses(ElapsedSet)
    \/ \E i \in 1..Len(Analyses), calibration_mode \in BOOLEAN :
           ProcessFace(Analyses[i], calibration_mode)
    \/ ProcessNoFace
    \/ TurnOn
    \/ TurnOff
    \/ ClearLog

SpecApp == Init /\ [][NextApp]_vars

-----------------------------------------------------------------------------
(* The claims *)

Channels == 1..3

InRange(c) == \A i \in Channels : c[i] >= 0 /\ c[i] <= 255

Between(a, x, b) == Min(a, b) <= x /\ x <= Max(a, b)

IsPrefix(s, t) == Len(s) <= Len(t) /\ SubSeq(t, 1, Len(s)) = s

\* C1: if the target stays the same for ever and update() keeps being called
\* at strictly increasing timestamps, current_color eventually equals the
\* target (and stays there).
C1_Convergence ==
    \A c \in Colors :
        <>[](target_color = c) => <>[](current_color = target_color)

\* C2: every update() leaves each channel of current_color between its value
\* before the update and the target's value.
C2_NoOvershoot ==
    [][Update => \A i \in Channels :
                    Between(current_color[i], current_color'[i], target_color[i])]_vars

\* C3: no update() increases a channel's distance to the target.
C3_MonotonicApproach ==
    [][Update => \A i \in Channels :
                    Abs(current_color'[i] - target_color[i])
                        <= Abs(current_color[i] - target_color[i])]_vars

\* C4: every channel of current_color, and of what get_current_color()
\* returned, is in 0..255.
C4_ColourRange ==
    /\ InRange(current_color)
    /\ last_call.op = "get_current_color" => InRange(last_call.ret)

\* C5: with the lights off, get_current_color() returns (0,0,0) whatever
\* current_color, target_color and brightness are.
C5_OffInvariant ==
    (last_call.op = "get_current_color" /\ ~is_on) => last_call.ret = Off

C5_Witness ==
    /\ last_call.op = "get_current_color"
    /\ ~is_on
    /\ Len(session_log) > 0
    /\ current_color # target_color
    /\ current_color # Off
    /\ brightness > 0
    /\ last_call.ret = Off

\* floor(c * brightness)
FloorScaled(c, bright) == (c * bright) \div BrightDen

\* C6: with the lights on, each channel of what get_current_color() returns
\* is floor(current_color[i] * brightness).
C6_BrightnessScaling ==
    (last_call.op = "get_current_color" /\ is_on) =>
        \A i \in Channels :
            last_call.ret[i] = FloorScaled(current_color[i], brightness)

\* C7: emotion_history is the last min(n, 30) of the n observations recorded
\* since construction or reset, in arrival order, and never longer than 30.
C7_BoundedFifoHistory ==
    LET n == Len(arrivals)
        kept == Min(n, 30)
    IN  /\ Len(emotion_history) <= 30
        /\ emotion_history = SubSeq(arrivals, n - kept + 1, n)

C7_Witness ==
    /\ last_call.op = "detect_emotion"
    /\ Len(arrivals) >= 32
    /\ Len(emotion_history) = 30
    /\ arrivals[1] # emotion_history[1]
    /\ arrivals[2] # emotion_history[1]

\* the sum of the key's scores over the observations, a missing key counting 0
RECURSIVE KeySum(_, _)
KeySum(observations, key) ==
    IF observations = <<>>
    THEN 0
    ELSE (IF DictHas(Head(observations).scores, key)
          THEN DictGet(Head(observations).scores, key, 0)
          ELSE 0)
         + KeySum(Tail(observations), key)

KeysOf(observations) ==
    UNION {{observations[j].scores[i][1] : i \in 1..Len(observations[j].scores)} :
              j \in 1..Len(observations)}

\* C8: get_average_emotion(window), window >= 1, returns None on an empty
\* history; otherwise, over the last min(window, len) observations, it gives
\* every key that appears in one of them, once, with the sum of the key's
\* scores divided by the number of those observations.
C8_Aggregation ==
    (last_call.op = "get_average_emotion" /\ last_call.args[1] >= 1) =>
        IF emotion_history = <<>>
        THEN last_call.ret = None
        ELSE LET n == Min(last_call.args[1], Len(emotion_history))
                 window == SubSeq(emotion_history,
                                  Len(emotion_history) - n + 1, Len(emotion_history))
                 scores == last_call.ret.scores
             IN  /\ {scores[i][1] : i \in 1..Len(scores)} = KeysOf(window)
                 /\ Len(scores) = Cardinality(KeysOf(window))
                 /\ \A i \in 1..Len(scores) :
                        scores[i][2] = Rat(KeySum(window, scores[i][1]), n)

C8_Witness ==
    /\ last_call.op = "get_average_emotion"
    /\ last_call.args[1] = 2
    /\ Len(emotion_history) > 2
    /\ last_call.ret.scores =
           << <<sad, <<20, 1>>>>, <<happy, <<30, 1>>>>, <<angry, <<15, 1>>>> >>

\* C9: every operation but clear_log leaves the old session_log a prefix of
\* the new one; clear_log empties it.
C9_AppendOnlyLog ==
    [][/\ ClearLog => session_log' = <<>>
       /\ ~ClearLog => IsPrefix(session_log, session_log')]_vars

C9_Witness ==
    /\ Len(session_log) = 2
    /\ session_log[1] # session_log[2]
    /\ last_call.op \in {"turn_on", "turn_off", "log_event"}

\* C10 as stated: set_emotion_color replaces target_color and leaves
\* current_color alone; current_color changes only in update, target_color
\* only in set_emotion_color.
C10_SetTargetFrame ==
    [][/\ \A color \in Colors, smooth \in BOOLEAN :
             SetEmotionColor(color, smooth) =>
                 target_color' = color /\ current_color' = current_color
       /\ current_color' # current_color => last_call'.op = "update"
       /\ target_color' # target_color => last_call'.op = "set_emotion_color"]_vars

\* C10 amended: set_emotion_color(color) with smooth true replaces
\* target_color and leaves current_color alone, with smooth false it sets
\* both to color; current_color changes only in update and in
\* set_emotion_color with smooth false, target_color only in
\* set_emotion_color.
C10_SetTargetFrameSmooth ==
    [][/\ \A color \in Colors :
             /\ SetEmotionColor(color, TRUE) =>
                    target_color' = color /\ current_color' = current_color
             /\ SetEmotionColor(color, FALSE) =>
                    target_color' = color /\ current_color' = color
       /\ current_color' # current_color =>
             \/ last_call'.op = "update"
             \/ /\ last_call'.op = "set_emotion_color"
                /\ last_call'.args[2] = FALSE
       /\ target_color' # target_color => last_call'.op = "set_emotion_color"]_vars

C10_Witness ==
    /\ last_call.op = "set_emotion_color"
    /\ last_call.args[2] = TRUE
    /\ target_color = last_call.args[1]
    /\ current_color # target_color
    /\ current_color \notin Colors

\* C11: an update() called with dt = 0 leaves current_color unchanged and
\* still sets last_update to the time of the call.
C11_ZeroDtTick ==
    [][(Update /\ since_update = 0) =>
           current_color' = current_color /\ since_update' = 0]_vars

\* C12: an update() that follows an update() at the same timestamp, with no
\* operation in between, leaves current_color as the first one left it.
C12_TickIdempotence ==
    [][(Update /\ last_call.op = "update" /\ since_update = 0) =>
           current_color' = current_color]_vars

C12_Witness ==
    /\ last_call.op = "update"
    /\ last_call.args[1] = 0
    /\ current_color # target_color
    /\ current_color \notin NearColors
    /\ since_update = 0

\* the two labels are the same up to letter case
SameLabel(a, b) ==
    /\ Len(a) = Len(b)
    /\ \A k \in 1..Len(a) : LowerChar(a[k]) = LowerChar(b[k])

\* C13: get_color_for_emotion never raises; it returns the table colour of a
\* known label in any letter case, and (200,200,200) for an unknown label and
\* for None.
C13_ColourLookup ==
    last_call.op = "get_color_for_emotion" =>
        /\ "raised" \notin DOMAIN last_call
        /\ LET emotion == last_call.args[1]
               known == {i \in 1..Len(EMOTION_COLORS) :
                            emotion # None /\ SameLabel(EMOTION_COLORS[i][1], emotion)}
           IN  IF known # {}
               THEN \A i \in known : last_call.ret = EMOTION_COLORS[i][2]
               ELSE last_call.ret = <<200, 200, 200>>

\* C14: set_brightness(b) stores 0 for b < 0, 1 for b > 1 and b otherwise,
\* so brightness is in [0,1] in every state; no other operation changes it.
C14_BrightnessBound ==
    /\ [](brightness >= 0 /\ brightness <= BrightDen)
    /\ [][/\ \A b \in BrightnessInputs :
                SetBrightness(b) =>
                    brightness' = (IF b < 0 THEN 0
                                   ELSE IF b > BrightDen THEN BrightDen ELSE b)
          /\ brightness' # brightness => last_call'.op = "set_brightness"]_vars

C14_Witness ==
    /\ last_call.op = "set_brightness"
    /\ last_call.args[1] < 0
    /\ brightness = 0
    /\ is_on

\* C15: an update() whose step = transition_speed * dt * 10 is at least 1
\* leaves current_color equal to target_color.
C15_LargeStepConvergence ==
    [][(Update /\ StepNum(since_update) >= StepDen) =>
           current_color' = target_color]_vars

\* the integers nearest to the rational num/den (den > 0): two of them at a tie
NearestIntegers(num, den) ==
    {x \in {num \div den, (num \div den) + 1} : 2 * Abs(x * den - num) <= den}

\* old + (target - old) * step rounded to the nearest integer
RoundedStep(old, tgt, dt) ==
    NearestIntegers(old * StepDen + (tgt - old) * StepNum(dt), StepDen)

\* C16: when current != target, update() computes for each channel
\* new = old + (target - old) * step rounded to the nearest integer; if new
\* is less than 5 from the target on all three channels current_color
\* becomes the target, otherwise it becomes new.
C16_TickStepFormula ==
    [][(Update /\ current_color # target_color) =>
           \E r \in RoundedStep(current_color[1], target_color[1], since_update),
              g \in RoundedStep(current_color[2], target_color[2], since_update),
              b \in RoundedStep(current_color[3], target_color[3], since_update) :
               current_color' = IF /\ Abs(r - target_color[1]) < 5
                                   /\ Abs(g - target_color[2]) < 5
                                   /\ Abs(b - target_color[3]) < 5
                                THEN target_color
                                ELSE <<r, g, b>>]_vars

\* C17: a processing cycle that detects a face whose dominant emotion differs
\* from the dominant emotion of the previous detection appends to the
\* session log one entry with event "emotion_change", that emotion and its
\* colour.
C17_EmotionChangeLogged ==
    [][\A i \in 1..Len(Analyses), calibration_mode \in BOOLEAN :
           (/\ ProcessFace(Analyses[i], calibration_mode)
            /\ last_emotion # None
            /\ last_emotion # last_emotion') =>
               /\ Len(session_log') = Len(session_log) + 1
               /\ IsPrefix(session_log, session_log')
               /\ session_log'[Len(session_log')].event = "emotion_change"
               /\ <<session_log'[Len(session_log')].emotion>> = last_emotion'
               /\ session_log'[Len(session_log')].color
                      = emotion_history'[Len(emotion_history')].color]_vars

\* C19: a processing cycle in which detection reports face_detected = false
\* leaves emotion_history, last_emotion, target_color, current_color and the
\* session log unchanged.
C19_NoFaceCycle ==
    [][(/\ last_call' # last_call
        /\ last_call'.op = "process_frame"
        /\ ~last_call'.ret.face_detected) =>
           UNCHANGED <<emotion_history, last_emotion, target_color, current_color,
                       session_log>>]_vars

C19_Witness ==
    /\ last_call.op = "process_frame"
    /\ ~last_call.ret.face_detected
    /\ emotion_history # <<>>
    /\ current_color # target_color
    /\ since_update > 0
    /\ session_log # <<>>

\* the log grew by exactly one entry, with the event and no emotion or colour
OneEntryAppended(event) ==
    /\ Len(session_log') = Len(session_log) + 1
    /\ IsPrefix(session_log, session_log')
    /\ session_log'[Len(session_log')].event = event
    /\ session_log'[Len(session_log')].emotion = None
    /\ session_log'[Len(session_log')].color = None

\* C18: turn_on sets is_on and appends exactly one "lights_on" entry with
\* emotion None and color None; turn_off clears is_on and appends exactly one
\* "lights_off" entry likewise; neither changes current_color, target_color
\* or brightness.
C18_TurnOnTurnOff ==
    [][/\ TurnOn => /\ is_on' = TRUE
                    /\ OneEntryAppended("lights_on")
                    /\ UNCHANGED <<current_color, target_color, brightness>>
       /\ TurnOff => /\ is_on' = FALSE
                     /\ OneEntryAppended("lights_off")
                     /\ UNCHANGED <<current_color, target_color, brightness>>]_vars

C18_Witness ==
    /\ last_call.op = "turn_off"
    /\ ~is_on
    /\ Len(session_log) = 2
    /\ session_log[1].event = "lights_on"
    /\ session_log[2].event = "lights_off"
    /\ current_color # target_color
    /\ brightness # InitBrightness

\* current_color is not the target but less than 5 from it on every channel
NearTarget(cur, tgt) == cur # tgt /\ CloseEnough(cur, tgt)

\* C20: right after an update() either current_color equals target_color or
\* some channel is 5 or more from the target's; only set_emotion_color
\* brings about a state with current != target and all three channels less
\* than 5 from the target.
C20_PostTickSnap ==
    [][/\ Update => ~NearTarget(current_color', target_color')
       /\ (NearTarget(current_color', target_color')
              /\ ~NearTarget(current_color, target_color)) =>
                 last_call'.op = "set_emotion_color"]_vars

C20_Witness ==
    /\ last_call.op = "update"
    /\ since_update = 0
    /\ current_color # target_color
    /\ \A i \in Channels : Abs(current_color[i] - target_color[i]) < 8

=============================================================================
